---- MODULE Spec2Model ----
(***************************************************************************)
(* Wardrobe manager (src/app.py): the persisted JSON document, the request *)
(* handlers that load, change and save it, and the weekly planner's        *)
(* randomized-restart backtracking search.                                 *)
(*                                                                         *)
(* Strings are sequences of tokens: an item id "<ms>_<rand>" is            *)
(* <<ToString(ms), "_", ToString(rand)>> and a combination id is the two  *)
(* item ids joined by another "_" token.  An item is reduced to its id     *)
(* (filename, url and original_name play no part in any handler modelled). *)
(***************************************************************************)
EXTENDS Integers, Sequences, FiniteSets, TLC

VARIABLES
    file,            \* the document stored in DATA_FILE
    now,             \* the wall clock, in milliseconds
    pending,         \* requests the run still accepts
    resp,            \* the last request and the response it got
    pc,              \* position of the generate_weekly handler
    data,            \* generate_weekly: the snapshot load_data returned
    liked_combos,    \* generate_weekly: the liked stored combinations
    attempt,         \* find_weekly_outfits: iterations of the attempt loop completed
    best_solution,   \* find_weekly_outfits: best partial solution so far
    solution,        \* find_weekly_outfits: the attempt's (partial) solution
    used_shirts,     \* find_weekly_outfits: shirt ids used by solution
    used_pants,      \* find_weekly_outfits: pants ids used by solution
    undone,          \* history: every backtrack call that returned False so far
                     \*          left solution and the used-id sets as it found them
    weekly_outfits,  \* generate_weekly: what find_weekly_outfits returned
    reqs,            \* concurrent requests: per worker the request, its position, its snapshot
    log,             \* history: the loads and saves of the concurrent requests, in order
    file0            \* history: the document before the concurrent requests

planVars == <<pc, data, liked_combos, attempt, best_solution, solution,
              used_shirts, used_pants, undone, weekly_outfits>>
raceVars == <<reqs, log, file0>>
vars == <<file, now, pending, resp, planVars, raceVars>>

-----------------------------------------------------------------------------
(* Bounds of the model *)

MaxClock == 2        \* the clock runs from 1 to MaxClock
MaxFiles == 2        \* files in one upload request
MaxRequests == 3     \* requests of one catalog session

(* Program constants *)

\* the count check, one short: len(liked_combos) < 6
MinLiked_less == 7 - 1

MinLiked == 7        \* len(liked_combos) < 7
WeekLen == 7         \* len(solution) == 7
MinOutfits == 7      \* len(weekly_outfits) < 7
max_attempts == 1000 \* find_weekly_outfits(liked_combos, max_attempts=1000)

\* Draws of random.randint(1000, 9999) the model follows: the two ends of the range.
RandChoices == {1000, 9999}

ClothingTypes == {"shirts", "pants"}

-----------------------------------------------------------------------------
(* The data model *)

\* f"{timestamp}_{random.randint(1000, 9999)}"
ItemId(timestamp, rand) == <<ToString(timestamp), "_", ToString(rand)>>

NewItem(timestamp, rand) == [id |-> ItemId(timestamp, rand)]

\* f"{shirt['id']}_{pants['id']}"
ComboId(shirt_id, pants_id) == shirt_id \o <<"_">> \o pants_id

NewCombo(shirt, pants) ==
    [id |-> ComboId(shirt.id, pants.id), shirt |-> shirt, pants |-> pants]

\* preferences.get(combo_id) == True
Liked(preferences, combo_id) ==
    combo_id \in DOMAIN preferences /\ preferences[combo_id] = TRUE

\* what load_data returns when DATA_FILE does not exist
EmptyDoc ==
    [shirts |-> <<>>, pants |-> <<>>, combinations |-> <<>>,
     preferences |-> [id \in {} |-> TRUE], weekly_outfits |-> <<>>]

-----------------------------------------------------------------------------
(* The handlers' changes to the loaded document *)

\* data[clothing_type].append(item), for each uploaded item
upload_clothing(d, clothing_type, items) ==
    [d EXCEPT ![clothing_type] = @ \o items]

\* data[clothing_type] = [item for item in items if item['id'] != item_id]
remove_clothing(d, clothing_type, item_id) ==
    [d EXCEPT ![clothing_type] = SelectSeq(@, LAMBDA item : item.id # item_id)]

\* data[clothing_type] = []
clear_clothing(d, clothing_type) ==
    [d EXCEPT ![clothing_type] = <<>>]

\* for pants in data['pants']: combinations.append({...}), from the j-th pants on
RECURSIVE PairWithPants(_, _, _, _)
PairWithPants(combinations, shirt, pants, j) ==
    IF j > Len(pants) THEN combinations
    ELSE PairWithPants(Append(combinations, NewCombo(shirt, pants[j])), shirt, pants, j + 1)

\* for shirt in data['shirts']: ..., from the i-th shirt on
RECURSIVE PairShirts(_, _, _, _)
PairShirts(combinations, shirts, pants, i) ==
    IF i > Len(shirts) THEN combinations
    ELSE PairShirts(PairWithPants(combinations, shirts[i], pants, 1), shirts, pants, i + 1)

\* generate_combinations, with the pants loop outside the shirts loop
generate_combinations_pants_first(d) ==
    [d EXCEPT !.combinations =
        [k \in 1..(Len(d.shirts) * Len(d.pants)) |->
            NewCombo(d.shirts[((k - 1) % Len(d.shirts)) + 1],
                     d.pants[((k - 1) \div Len(d.shirts)) + 1])]]

\* data['combinations'] = combinations
generate_combinations(d) ==
    [d EXCEPT !.combinations = PairShirts(<<>>, d.shirts, d.pants, 1)]

\* rate_combination, dropping the ratings of combinations that are not stored
rate_combination_pruning(d, combo_id, liked) ==
    [d EXCEPT !.preferences =
        [id \in {x \in DOMAIN @ : \E k \in 1..Len(d.combinations) : d.combinations[k].id = x}
                \cup {combo_id} |-> IF id = combo_id THEN liked ELSE @[id]]]

\* data['preferences'][combo_id] = liked
rate_combination(d, combo_id, liked) ==
    [d EXCEPT !.preferences =
        [id \in DOMAIN @ \cup {combo_id} |-> IF id = combo_id THEN liked ELSE @[id]]]

\* [combo for combo in combinations if preferences.get(combo['id']) == True]
LikedCombos(d) ==
    SelectSeq(d.combinations, LAMBDA combo : Liked(d.preferences, combo.id))

-----------------------------------------------------------------------------
(* get_analytics *)

\* (liked / total * 100) if total > 0 else 0, kept exact as <<numerator, denominator>>
performance(liked, total) ==
    IF total > 0 THEN <<liked * 100, total>> ELSE <<0, 1>>

\* the order of two performance values
PerfLess(a, b) == a[1] * b[2] < b[1] * a[2]

\* for pants in data['pants']: if preferences.get(f"{shirt['id']}_{pants['id']}") == True: liked += 1
RECURSIVE ShirtLikedCount(_, _, _, _)
ShirtLikedCount(preferences, shirt, pants, j) ==
    IF j > Len(pants) THEN 0
    ELSE (IF Liked(preferences, ComboId(shirt.id, pants[j].id)) THEN 1 ELSE 0)
         + ShirtLikedCount(preferences, shirt, pants, j + 1)

\* for shirt in data['shirts']: if preferences.get(f"{shirt['id']}_{pants['id']}") == True: liked += 1
RECURSIVE PantsLikedCount(_, _, _, _)
PantsLikedCount(preferences, pants, shirts, i) ==
    IF i > Len(shirts) THEN 0
    ELSE (IF Liked(preferences, ComboId(shirts[i].id, pants.id)) THEN 1 ELSE 0)
         + PantsLikedCount(preferences, pants, shirts, i + 1)

PerformanceEntry(item, liked, total) ==
    [item |-> item, liked |-> liked, total |-> total,
     performance |-> performance(liked, total)]

shirt_performance(d) ==
    [i \in 1..Len(d.shirts) |->
        PerformanceEntry(d.shirts[i],
                         ShirtLikedCount(d.preferences, d.shirts[i], d.pants, 1),
                         Len(d.pants))]

pants_performance(d) ==
    [j \in 1..Len(d.pants) |->
        PerformanceEntry(d.pants[j],
                         PantsLikedCount(d.preferences, d.pants[j], d.shirts, 1),
                         Len(d.shirts))]

\* InsertEntry, putting an entry before the entries that are equal to it
RECURSIVE InsertEntry_before_equal(_, _, _)
InsertEntry_before_equal(sorted, entry, k) ==
    IF k > Len(sorted) \/ ~PerfLess(sorted[k].performance, entry.performance)
    THEN SubSeq(sorted, 1, k - 1) \o <<entry>> \o SubSeq(sorted, k, Len(sorted))
    ELSE InsertEntry_before_equal(sorted, entry, k + 1)

\* list.sort is stable: an entry goes behind every entry that is not greater
RECURSIVE InsertEntry(_, _, _)
InsertEntry(sorted, entry, k) ==
    IF k > Len(sorted) \/ PerfLess(entry.performance, sorted[k].performance)
    THEN SubSeq(sorted, 1, k - 1) \o <<entry>> \o SubSeq(sorted, k, Len(sorted))
    ELSE InsertEntry(sorted, entry, k + 1)

\* entries.sort(key=lambda x: x['performance'])
RECURSIVE SortByPerformance(_, _, _)
SortByPerformance(sorted, entries, i) ==
    IF i > Len(entries) THEN sorted
    ELSE SortByPerformance(InsertEntry(sorted, entries[i], 1), entries, i + 1)

get_analytics(d) ==
    [stats |->
        [shirts |-> Len(d.shirts),
         pants |-> Len(d.pants),
         combinations |-> Len(d.shirts) * Len(d.pants),
         liked |-> Cardinality({id \in DOMAIN d.preferences : d.preferences[id] = TRUE}),
         disliked |-> Cardinality({id \in DOMAIN d.preferences : d.preferences[id] = FALSE})],
     shirt_performance |-> SortByPerformance(<<>>, shirt_performance(d), 1),
     pants_performance |-> SortByPerformance(<<>>, pants_performance(d), 1)]

-----------------------------------------------------------------------------
(* find_weekly_outfits: one attempt's shuffle and search *)

\* what random.shuffle can make of a copy of liked_combos
Shuffles(liked) ==
    {[i \in 1..Len(liked) |-> liked[p[i]]] : p \in Permutations(1..Len(liked))}

\* solution = [], used_shirts = set(), used_pants = set()
NewSearch ==
    [ret |-> FALSE, solution |-> <<>>, used_shirts |-> {}, used_pants |-> {},
     undone |-> TRUE]

(* backtrack(index) on the nonlocal state st; the result is the state it leaves,
   with ret the value returned.  scan is its for loop from position i (0-based,
   as in the source) on.  undone records that the calls that returned False left
   the nonlocal state as it was when they were entered *)
RECURSIVE backtrack(_, _, _)
RECURSIVE scan(_, _, _)

\* scan, not testing pants_id against used_pants
RECURSIVE scan_ignoring_pants(_, _, _)
scan_ignoring_pants(shuffled, i, st) ==
    IF i >= Len(shuffled) THEN [st EXCEPT !.ret = FALSE]
    ELSE LET combo == shuffled[i + 1]
             shirt_id == combo.shirt.id
             pants_id == combo.pants.id
         IN  IF shirt_id \notin st.used_shirts
             THEN LET chosen == [st EXCEPT !.solution = Append(@, combo),
                                           !.used_shirts = @ \cup {shirt_id},
                                           !.used_pants = @ \cup {pants_id}]
                      r == backtrack(shuffled, i + 1, chosen)
                  IN  IF r.ret THEN r
                      ELSE scan_ignoring_pants(shuffled, i + 1,
                                [r EXCEPT !.solution = SubSeq(@, 1, Len(@) - 1),
                                          !.used_shirts = @ \ {shirt_id},
                                          !.used_pants = @ \ {pants_id},
                                          !.undone = @ /\ r.solution = chosen.solution
                                                       /\ r.used_shirts = chosen.used_shirts
                                                       /\ r.used_pants = chosen.used_pants])
             ELSE scan_ignoring_pants(shuffled, i + 1, st)

\* scan, returning what the first recursive call returned instead of trying the
\* next candidate (after undoing the choice)
RECURSIVE scan_first_fit(_, _, _)
scan_first_fit(shuffled, i, st) ==
    IF i >= Len(shuffled) THEN [st EXCEPT !.ret = FALSE]
    ELSE LET combo == shuffled[i + 1]
             shirt_id == combo.shirt.id
             pants_id == combo.pants.id
         IN  IF shirt_id \notin st.used_shirts /\ pants_id \notin st.used_pants
             THEN LET chosen == [st EXCEPT !.solution = Append(@, combo),
                                           !.used_shirts = @ \cup {shirt_id},
                                           !.used_pants = @ \cup {pants_id}]
                      r == backtrack(shuffled, i + 1, chosen)
                  IN  IF r.ret THEN r
                      ELSE [r EXCEPT !.solution = SubSeq(@, 1, Len(@) - 1),
                                     !.used_shirts = @ \ {shirt_id},
                                     !.used_pants = @ \ {pants_id},
                                     !.undone = @ /\ r.solution = chosen.solution
                                                  /\ r.used_shirts = chosen.used_shirts
                                                  /\ r.used_pants = chosen.used_pants]
             ELSE scan_first_fit(shuffled, i + 1, st)

\* scan, without solution.pop() after a failed recursive call
RECURSIVE scan_without_pop(_, _, _)
scan_without_pop(shuffled, i, st) ==
    IF i >= Len(shuffled) THEN [st EXCEPT !.ret = FALSE]
    ELSE LET combo == shuffled[i + 1]
             shirt_id == combo.shirt.id
             pants_id == combo.pants.id
         IN  IF shirt_id \notin st.used_shirts /\ pants_id \notin st.used_pants
             THEN LET chosen == [st EXCEPT !.solution = Append(@, combo),
                                           !.used_shirts = @ \cup {shirt_id},
                                           !.used_pants = @ \cup {pants_id}]
                      r == backtrack(shuffled, i + 1, chosen)
                  IN  IF r.ret THEN r
                      ELSE scan_without_pop(shuffled, i + 1,
                                [r EXCEPT !.used_shirts = @ \ {shirt_id},
                                          !.used_pants = @ \ {pants_id},
                                          !.undone = @ /\ r.solution = chosen.solution
                                                       /\ r.used_shirts = chosen.used_shirts
                                                       /\ r.used_pants = chosen.used_pants])
             ELSE scan_without_pop(shuffled, i + 1, st)

backtrack(shuffled, index, st) ==
    IF Len(st.solution) = WeekLen THEN [st EXCEPT !.ret = TRUE]
    ELSE scan(shuffled, index, st)

scan(shuffled, i, st) ==
    IF i >= Len(shuffled) THEN [st EXCEPT !.ret = FALSE]
    ELSE LET combo == shuffled[i + 1]
             shirt_id == combo.shirt.id
             pants_id == combo.pants.id
         IN  IF shirt_id \notin st.used_shirts /\ pants_id \notin st.used_pants
             THEN LET chosen == [st EXCEPT !.solution = Append(@, combo),
                                           !.used_shirts = @ \cup {shirt_id},
                                           !.used_pants = @ \cup {pants_id}]
                      r == backtrack(shuffled, i + 1, chosen)
                  IN  IF r.ret THEN r
                      ELSE scan(shuffled, i + 1,
                                [r EXCEPT !.solution = SubSeq(@, 1, Len(@) - 1),
                                          !.used_shirts = @ \ {shirt_id},
                                          !.used_pants = @ \ {pants_id},
                                          !.undone = @ /\ r.solution = chosen.solution
                                                       /\ r.used_shirts = chosen.used_shirts
                                                       /\ r.used_pants = chosen.used_pants])
             ELSE scan(shuffled, i + 1, st)

\* shuffled = liked_combos.copy(); random.shuffle(shuffled); ...; backtrack(0)
AttemptsOf(liked) == {backtrack(shuffled, 0, NewSearch) : shuffled \in Shuffles(liked)}

-----------------------------------------------------------------------------
(* Stored documents: what earlier uploads, generate_combinations, rate and
   generate_weekly requests left in DATA_FILE *)

Shirt(k) == NewItem(1, 1000 + k)
Pant(k) == NewItem(1, 2000 + k)
PairId(i, j) == ComboId(Shirt(i).id, Pant(j).id)

\* m shirts and n pants uploaded, combinations generated
Wardrobe(m, n) ==
    generate_combinations([EmptyDoc EXCEPT !.shirts = [k \in 1..m |-> Shirt(k)],
                                           !.pants = [k \in 1..n |-> Pant(k)]])

Rated(d, likedIds, dislikedIds) ==
    [d EXCEPT !.preferences = [id \in likedIds \cup dislikedIds |-> id \in likedIds]]

DiagonalIds == {PairId(k, k) : k \in 1..7}
\* ratings of combinations whose items have since been removed
OrphanIds == {PairId(8, 8), PairId(9, 9)}
DiagonalPlan == [k \in 1..7 |-> NewCombo(Shirt(k), Pant(k))]

\* 7 x 7, exactly the diagonal liked
DocDiagonal == Rated(Wardrobe(7, 7), DiagonalIds \cup OrphanIds, {PairId(1, 2)})
\* 7 x 7, the diagonal and (S1, P2) liked, a plan stored
DocExtra ==
    [Rated(Wardrobe(7, 7), DiagonalIds \cup {PairId(1, 2)}, {PairId(2, 1)})
        EXCEPT !.weekly_outfits = DiagonalPlan]
\* 7 x 7, seven liked of which two share pants P1, a plan stored
DocClash ==
    [Rated(Wardrobe(7, 7), (DiagonalIds \ {PairId(2, 2)}) \cup {PairId(2, 1)},
           {PairId(2, 2)})
        EXCEPT !.weekly_outfits = DiagonalPlan]
\* 8 x 7, the diagonal and (S8, P7) liked: two sets of 7 make a plan
DocSpare == Rated(Wardrobe(8, 7), DiagonalIds \cup {PairId(8, 7)}, {PairId(8, 1)})
\* 3 x 3, seven liked
DocThreeShirts ==
    Rated(Wardrobe(3, 3),
          {PairId(i, j) : i \in 1..2, j \in 1..3} \cup {PairId(3, 1)},
          {PairId(3, 3)})
\* 7 x 7, six of the diagonal liked, two liked orphans, a plan stored
DocShort ==
    [Rated(Wardrobe(7, 7), (DiagonalIds \ {PairId(7, 7)}) \cup OrphanIds,
           {PairId(7, 7)})
        EXCEPT !.weekly_outfits = DiagonalPlan]
\* 2 x 2, all four liked
DocFour == Rated(Wardrobe(2, 2), {PairId(i, j) : i, j \in 1..2}, {})
\* the pants cleared after the combinations were generated
DocNoPants == clear_clothing(Rated(Wardrobe(2, 1), {PairId(1, 1)}, {}), "pants")
\* 3 x 2, shirts 2 and 3 tie
DocTies == Rated(Wardrobe(3, 2), {PairId(1, 1)}, {PairId(2, 2)})
\* a shirt uploaded after the combinations were generated
DocStale ==
    upload_clothing(Rated(Wardrobe(1, 1), {PairId(1, 1)}, {}), "shirts", <<Shirt(2)>>)

StoredDocs ==
    {EmptyDoc, DocDiagonal, DocExtra, DocSpare, DocClash, DocThreeShirts, DocShort,
     DocFour, DocNoPants, DocTies, DocStale}

\* the attempts' results, tabulated once for the stored documents
SearchTable ==
    [liked \in {l \in {LikedCombos(d) : d \in StoredDocs} : Len(l) >= MinLiked}
        |-> AttemptsOf(liked)]

AttemptResults(liked) ==
    IF liked \in DOMAIN SearchTable THEN SearchTable[liked] ELSE AttemptsOf(liked)

-----------------------------------------------------------------------------
(* Requests and responses *)

Response(op, req, status, body) ==
    [op |-> op, req |-> req, status |-> status, body |-> body]

NoResponse == Response("none", <<>>, 0, <<>>)

\* timestamps of n files saved one after the other, none before the clock
Stamps(clock, n) ==
    {ts \in [1..n -> clock..MaxClock] : \A i \in 1..(n - 1) : ts[i] <= ts[i + 1]}

\* ids a client can name in remove requests: those stored, and one that is not
KnownItemIds(d) ==
    {d.shirts[i].id : i \in 1..Len(d.shirts)} \cup {d.pants[j].id : j \in 1..Len(d.pants)}
    \cup {ItemId(1, 5000)}

\* ids a client can name in rate requests: those stored, and one that is not
KnownComboIds(d) ==
    {d.combinations[k].id : k \in 1..Len(d.combinations)}
    \cup {ComboId(ItemId(1, 5000), ItemId(1, 5000))}

Accept == pending > 0 /\ pc = "idle" /\ pending' = pending - 1

-----------------------------------------------------------------------------
(* The handlers, one request at a time *)

\* POST /api/upload/<clothing_type>: stamps and rands are the timestamps and the
\* random numbers of the files that were saved
UploadClothing(clothing_type, stamps, rands) ==
    LET items == [i \in 1..Len(stamps) |-> NewItem(stamps[i], rands[i])]
        saved == upload_clothing(file, clothing_type, items)
        req == [clothing_type |-> clothing_type]
    IN  /\ Accept
        /\ IF clothing_type \notin ClothingTypes
           THEN /\ resp' = Response("upload", req, 400, [error |-> "Invalid clothing type"])
                /\ UNCHANGED <<file, now>>
           ELSE IF items = <<>>
           THEN /\ resp' = Response("upload", req, 400,
                                    [error |-> "No valid files could be uploaded"])
                /\ UNCHANGED <<file, now>>
           ELSE /\ file' = saved
                /\ now' = stamps[Len(stamps)]
                /\ resp' = Response("upload", req, 200,
                                    [items |-> items, total |-> Len(saved[clothing_type])])
        /\ UNCHANGED <<planVars, raceVars>>

\* DELETE /api/remove/<clothing_type>/<item_id>
RemoveClothing(clothing_type, item_id) ==
    LET req == [clothing_type |-> clothing_type, item_id |-> item_id]
    IN  /\ Accept
        /\ IF clothing_type \notin ClothingTypes
           THEN /\ resp' = Response("remove", req, 400, [error |-> "Invalid clothing type"])
                /\ UNCHANGED file
           ELSE /\ file' = remove_clothing(file, clothing_type, item_id)
                /\ resp' = Response("remove", req, 200, [success |-> TRUE])
        /\ UNCHANGED <<now, planVars, raceVars>>

\* DELETE /api/clear/<clothing_type>
ClearClothing(clothing_type) ==
    LET req == [clothing_type |-> clothing_type]
    IN  /\ Accept
        /\ IF clothing_type \notin ClothingTypes
           THEN /\ resp' = Response("clear", req, 400, [error |-> "Invalid clothing type"])
                /\ UNCHANGED file
           ELSE /\ file' = clear_clothing(file, clothing_type)
                /\ resp' = Response("clear", req, 200, [success |-> TRUE])
        /\ UNCHANGED <<now, planVars, raceVars>>

\* POST /api/generate_combinations
GenerateCombinations ==
    LET saved == generate_combinations(file)
    IN  /\ Accept
        /\ IF file.shirts = <<>> \/ file.pants = <<>>
           THEN /\ resp' = Response("generate_combinations", <<>>, 400,
                                    [error |-> "Need at least one shirt and one pair of pants"])
                /\ UNCHANGED file
           ELSE /\ file' = saved
                /\ resp' = Response("generate_combinations", <<>>, 200,
                                    [count |-> Len(saved.combinations),
                                     combinations |-> saved.combinations])
        /\ UNCHANGED <<now, planVars, raceVars>>

\* POST /api/rate: fields are the keys the request body gives a value other than null
RateCombination(fields, combo_id, liked) ==
    LET req == [fields |-> fields, combination_id |-> combo_id, liked |-> liked]
    IN  /\ Accept
        /\ IF "combination_id" \notin fields \/ "liked" \notin fields
           THEN /\ resp' = Response("rate", req, 400, [error |-> "Invalid data"])
                /\ UNCHANGED file
           ELSE /\ file' = rate_combination(file, combo_id, liked)
                /\ resp' = Response("rate", req, 200, [success |-> TRUE])
        /\ UNCHANGED <<now, planVars, raceVars>>

\* GET /api/analytics
GetAnalytics ==
    /\ Accept
    /\ resp' = Response("analytics", <<>>, 200, get_analytics(file))
    /\ UNCHANGED <<file, now, planVars, raceVars>>

-----------------------------------------------------------------------------
(* POST /api/generate_weekly, step by step *)

\* load_data, the liked combinations, and the check that there are 7 of them
GenerateWeeklyLoad ==
    LET liked == LikedCombos(file)
    IN  /\ Accept
        /\ data' = file
        /\ liked_combos' = liked
        /\ attempt' = 0
        /\ best_solution' = <<>>
        /\ solution' = <<>>
        /\ used_shirts' = {}
        /\ used_pants' = {}
        /\ undone' = TRUE
        /\ weekly_outfits' = <<>>
        /\ IF Len(liked) < MinLiked
           THEN /\ pc' = "idle"
                /\ resp' = Response("generate_weekly", <<>>, 400,
                                    [error |-> "Need at least 7 liked combinations",
                                     have |-> Len(liked)])
           ELSE /\ pc' = "attempt"
                /\ resp' = NoResponse
        /\ UNCHANGED <<file, now, raceVars>>

\* InRange, one iteration short
InRange_short(n) == n < max_attempts - 1

\* for attempt in range(max_attempts)
InRange(n) == n < max_attempts

\* one iteration of the attempt loop: shuffle, search, return or keep the best
GenerateWeeklyAttempt ==
    /\ pc = "attempt"
    /\ InRange(attempt)
    /\ \E r \in AttemptResults(liked_combos) :
        /\ solution' = r.solution
        /\ used_shirts' = r.used_shirts
        /\ used_pants' = r.used_pants
        /\ undone' = (undone /\ r.undone)
        /\ IF r.ret
           THEN /\ weekly_outfits' = r.solution
                /\ pc' = "finish"
                /\ UNCHANGED <<attempt, best_solution>>
           ELSE /\ best_solution' =
                       IF Len(r.solution) > Len(best_solution) THEN r.solution
                       ELSE best_solution
                /\ attempt' = attempt + 1
                /\ UNCHANGED <<weekly_outfits, pc>>
    /\ UNCHANGED <<file, now, pending, resp, data, liked_combos, raceVars>>

\* the attempt loop is over: return best_solution
GenerateWeeklyExhausted ==
    /\ pc = "attempt"
    /\ ~InRange(attempt)
    /\ weekly_outfits' = best_solution
    /\ pc' = "finish"
    /\ UNCHANGED <<file, now, pending, resp, data, liked_combos, attempt,
                   best_solution, solution, used_shirts, used_pants, undone, raceVars>>

\* what a successful request writes: data['weekly_outfits'] = weekly_outfits
PlanSaved(d, outfits) == [d EXCEPT !.weekly_outfits = outfits]

\* fewer than 7 outfits is an error; otherwise save the plan and return it
GenerateWeeklyFinish ==
    /\ pc = "finish"
    /\ pc' = "idle"
    /\ IF Len(weekly_outfits) < MinOutfits
       THEN /\ resp' = Response("generate_weekly", <<>>, 400,
                                [error |-> "Could not generate 7 unique outfits"])
            /\ UNCHANGED file
       ELSE /\ file' = PlanSaved(data, weekly_outfits)
            /\ resp' = Response("generate_weekly", <<>>, 200, [outfits |-> weekly_outfits])
    /\ UNCHANGED <<now, pending, data, liked_combos, attempt, best_solution, solution,
                   used_shirts, used_pants, undone, weekly_outfits, raceVars>>

-----------------------------------------------------------------------------
(* The specifications *)

RequestTypes == ClothingTypes \cup {"hats"}
RateFields == {{"combination_id", "liked"}, {"combination_id"}}

InitPlan ==
    /\ pc = "idle"
    /\ data = EmptyDoc
    /\ liked_combos = <<>>
    /\ attempt = 0
    /\ best_solution = <<>>
    /\ solution = <<>>
    /\ used_shirts = {}
    /\ used_pants = {}
    /\ undone = TRUE
    /\ weekly_outfits = <<>>

NoRace ==
    /\ reqs = <<>>
    /\ log = <<>>
    /\ file0 = EmptyDoc

\* one request to a stored document
Init ==
    /\ file \in StoredDocs
    /\ now = 1
    /\ pending = 1
    /\ resp = NoResponse
    /\ InitPlan
    /\ NoRace

\* a session of catalog requests from the empty document
InitCatalog ==
    /\ file = EmptyDoc
    /\ now = 1
    /\ pending = MaxRequests
    /\ resp = NoResponse
    /\ InitPlan
    /\ NoRace

NextCatalog ==
    \/ \E clothing_type \in RequestTypes, n \in 0..MaxFiles :
         \E stamps \in Stamps(now, n), rands \in [1..n -> RandChoices] :
            UploadClothing(clothing_type, stamps, rands)
    \/ \E clothing_type \in RequestTypes, item_id \in KnownItemIds(file) :
            RemoveClothing(clothing_type, item_id)
    \/ \E clothing_type \in RequestTypes : ClearClothing(clothing_type)
    \/ GenerateCombinations
    \/ \E fields \in RateFields, combo_id \in KnownComboIds(file), liked \in BOOLEAN :
            RateCombination(fields, combo_id, liked)
    \/ GetAnalytics

Next ==
    \/ NextCatalog
    \/ GenerateWeeklyLoad
    \/ GenerateWeeklyAttempt
    \/ GenerateWeeklyExhausted
    \/ GenerateWeeklyFinish

Spec == Init /\ [][Next]_vars

SpecCatalog == InitCatalog /\ [][NextCatalog]_vars

-----------------------------------------------------------------------------
(* Two requests served concurrently: each loads the document, changes its copy
   and saves the copy; nothing orders one request's load and save against the
   other's *)

Workers == {1, 2}

Request(op, clothing_type, id, liked) ==
    [op |-> op, clothing_type |-> clothing_type, id |-> id, liked |-> liked]

RaceRequests ==
    {Request("rate", "", id, liked) : id \in {PairId(1, 1), PairId(2, 1)}, liked \in BOOLEAN}
    \cup {Request("generate_combinations", "", <<>>, FALSE),
          Request("remove", "shirts", Shirt(1).id, FALSE),
          Request("clear", "pants", <<>>, FALSE)}

\* the handler's change to the document it loaded; ok is whether it goes on to save
Changed(req, d) ==
    CASE req.op = "rate" ->
            [ok |-> TRUE, doc |-> rate_combination(d, req.id, req.liked)]
      [] req.op = "generate_combinations" ->
            IF d.shirts = <<>> \/ d.pants = <<>> THEN [ok |-> FALSE, doc |-> d]
            ELSE [ok |-> TRUE, doc |-> generate_combinations(d)]
      [] req.op = "remove" ->
            [ok |-> TRUE, doc |-> remove_clothing(d, req.clothing_type, req.id)]
      [] req.op = "clear" ->
            [ok |-> TRUE, doc |-> clear_clothing(d, req.clothing_type)]

InitRace ==
    /\ file \in {DocStale, DocFour}
    /\ file0 = file
    /\ reqs \in [Workers -> {[req |-> q, at |-> "start", data |-> EmptyDoc, status |-> 0] :
                                q \in RaceRequests}]
    /\ log = <<>>
    /\ now = 1
    /\ pending = 0
    /\ resp = NoResponse
    /\ InitPlan

\* data = load_data()
RaceLoad(w) ==
    /\ reqs[w].at = "start"
    /\ reqs' = [reqs EXCEPT ![w].at = "loaded", ![w].data = file]
    /\ log' = Append(log, [worker |-> w, event |-> "load"])
    /\ UNCHANGED <<file, file0, now, pending, resp, planVars>>

\* RaceSave, changing the document as it is stored now instead of the loaded copy
RaceSave_fresh(w) ==
    LET c == Changed(reqs[w].req, file)
    IN  /\ reqs[w].at = "loaded"
        /\ IF c.ok
           THEN /\ file' = c.doc
                /\ log' = Append(log, [worker |-> w, event |-> "save"])
                /\ reqs' = [reqs EXCEPT ![w].at = "done", ![w].status = 200]
           ELSE /\ reqs' = [reqs EXCEPT ![w].at = "done", ![w].status = 400]
                /\ UNCHANGED <<file, log>>
        /\ UNCHANGED <<file0, now, pending, resp, planVars>>

\* the change, then save_data(data) and the response
RaceSave(w) ==
    LET c == Changed(reqs[w].req, reqs[w].data)
    IN  /\ reqs[w].at = "loaded"
        /\ IF c.ok
           THEN /\ file' = c.doc
                /\ log' = Append(log, [worker |-> w, event |-> "save"])
                /\ reqs' = [reqs EXCEPT ![w].at = "done", ![w].status = 200]
           ELSE /\ reqs' = [reqs EXCEPT ![w].at = "done", ![w].status = 400]
                /\ UNCHANGED <<file, log>>
        /\ UNCHANGED <<file0, now, pending, resp, planVars>>

NextRace == \E w \in Workers : RaceLoad(w) \/ RaceSave(w)

SpecRace == InitRace /\ [][NextRace]_vars

-----------------------------------------------------------------------------
(* The claims *)

\* some 7 of the combinations have pairwise distinct shirt ids and pairwise
\* distinct pants ids
Feasible(liked) ==
    \E S \in SUBSET (1..Len(liked)) :
        /\ Cardinality(S) = 7
        /\ \A i, j \in S :
            i # j => /\ liked[i].shirt.id # liked[j].shirt.id
                     /\ liked[i].pants.id # liked[j].pants.id

WeeklyOk == resp.op = "generate_weekly" /\ resp.status = 200
WeeklyInsufficient ==
    /\ resp.op = "generate_weekly"
    /\ resp.status = 400
    /\ resp.body.error = "Need at least 7 liked combinations"
WeeklyNoPlan ==
    /\ resp.op = "generate_weekly"
    /\ resp.status = 400
    /\ resp.body.error = "Could not generate 7 unique outfits"

\* C1: a successful generate_weekly returns and stores a plan of exactly 7
\* combinations with pairwise distinct shirt ids and pairwise distinct pants
\* ids, each a stored combination that the loaded snapshot rates liked.
C1_PlanValid ==
    WeeklyOk =>
        LET plan == resp.body.outfits
        IN  /\ Len(plan) = 7
            /\ file.weekly_outfits = plan
            /\ \A i, j \in 1..Len(plan) :
                i # j => /\ plan[i].shirt.id # plan[j].shirt.id
                         /\ plan[i].pants.id # plan[j].pants.id
            /\ \A i \in 1..Len(plan) :
                /\ \E k \in 1..Len(data.combinations) : data.combinations[k] = plan[i]
                /\ Liked(data.preferences, plan[i].id)

\* a plan was made out of 8 liked combinations
C1_Witness == WeeklyOk /\ Len(liked_combos) = 8

\* C2: with fewer than 7 liked stored combinations (ratings of ids that are not
\* stored do not count) generate_weekly answers with the insufficient-liked
\* error and that count, starts no search, and leaves the stored document as
\* it was.
C2_Insufficient ==
    [][LET n == Cardinality({k \in 1..Len(file.combinations) :
                                Liked(file.preferences, file.combinations[k].id)})
       IN  (pending' < pending /\ (resp'.op = "generate_weekly" \/ pc' # "idle") /\ n < 7)
              => /\ WeeklyInsufficient'
                 /\ resp'.body.have = n
                 /\ pc' = "idle"
                 /\ attempt' = 0
                 /\ solution' = <<>>
                 /\ file' = file]_vars

\* six liked stored combinations, eight liked ratings, the stored plan intact
C2_Witness ==
    /\ WeeklyInsufficient
    /\ resp.body.have = 6
    /\ Cardinality({id \in DOMAIN file.preferences : file.preferences[id]}) = 8
    /\ file.weekly_outfits = DiagonalPlan

\* C3: if the liked combinations hold 7 with distinct shirts and distinct pants,
\* the first attempt finds a plan whatever the shuffle; the planner succeeds
\* exactly when such 7 exist; and when exactly 7 are liked the plan is those 7.
C3_SearchComplete ==
    /\ (pc = "attempt" /\ attempt > 0) => ~Feasible(liked_combos)
    /\ (pc = "finish" /\ Feasible(liked_combos))
          => attempt = 0 /\ Len(weekly_outfits) = 7
    /\ (resp.op = "generate_weekly" /\ Len(liked_combos) >= 7)
          => (resp.status = 200 <=> Feasible(liked_combos))
    /\ (WeeklyOk /\ Len(liked_combos) = 7)
          => {resp.body.outfits[i] : i \in 1..Len(resp.body.outfits)}
               = {liked_combos[i] : i \in 1..7}

\* exactly 7 liked, and the plan is not in the stored order
C3_Witness ==
    /\ WeeklyOk
    /\ Len(liked_combos) = 7
    /\ resp.body.outfits # liked_combos

\* C4: with at least 7 liked combinations none 7 of which have distinct shirts
\* and distinct pants, generate_weekly ends with the no-plan error, only after
\* max_attempts failed searches, and the stored document is as it was loaded.
C4_Exhausted ==
    /\ (pc = "finish" /\ ~Feasible(liked_combos)) => attempt = max_attempts
    /\ (resp.op = "generate_weekly" /\ Len(liked_combos) >= 7 /\ ~Feasible(liked_combos))
          => WeeklyNoPlan
    /\ WeeklyNoPlan =>
          /\ attempt = max_attempts
          /\ ~Feasible(liked_combos)
          /\ file = data

\* the no-plan error, the plan stored before still there
C4_Witness == WeeklyNoPlan /\ file.weekly_outfits = DiagonalPlan /\ attempt = max_attempts

\* C5: generate_combinations stores and returns the row-major cross product
\* (position i * |pants| + j pairs shirts[i] with pants[j] under the id
\* shirts[i].id "_" pants[j].id); with an empty list it fails and the stored
\* document is as it was.
C5_CrossProduct ==
    [][(pending' < pending /\ resp'.op = "generate_combinations") =>
        LET m == Len(file.shirts)
            n == Len(file.pants)
            combos == file'.combinations
        IN  IF m = 0 \/ n = 0
            THEN resp'.status = 400 /\ file' = file
            ELSE /\ resp'.status = 200
                 /\ resp'.body.combinations = combos
                 /\ resp'.body.count = m * n
                 /\ Len(combos) = m * n
                 /\ \A i \in 0..(m - 1), j \in 0..(n - 1) :
                       LET c == combos[i * n + j + 1]
                       IN  /\ c.shirt = file.shirts[i + 1]
                           /\ c.pants = file.pants[j + 1]
                           /\ c.id = file.shirts[i + 1].id \o <<"_">> \o file.pants[j + 1].id
                 /\ \A k \in 1..Len(combos) :
                       /\ \E i \in 1..m : file'.shirts[i] = combos[k].shirt
                       /\ \E j \in 1..n : file'.pants[j] = combos[k].pants]_vars

\* 3 shirts and 2 pants made 6 combinations
C5_Witness ==
    /\ resp.op = "generate_combinations"
    /\ resp.status = 200
    /\ Len(file.shirts) = 3
    /\ Len(file.pants) = 2
    /\ resp.body.count = 6

\* C6: no two stored combinations share an id.
C6_UniqueComboIds ==
    \A i, j \in 1..Len(file.combinations) :
        i # j => file.combinations[i].id # file.combinations[j].id

\* C7: the ratings change only in a rate request, which sets the rated id and
\* leaves every other rating as it was; generate_combinations, generate_weekly
\* and get_analytics leave the shirts and the pants as they were.
C7_Frame ==
    [][/\ file'.preferences # file.preferences
            => pending' < pending /\ resp'.op = "rate" /\ resp'.status = 200
       /\ (pending' < pending /\ resp'.op = "rate" /\ resp'.status = 200)
            => LET id == resp'.req.combination_id
               IN  /\ DOMAIN file'.preferences = DOMAIN file.preferences \cup {id}
                   /\ file'.preferences[id] = resp'.req.liked
                   /\ \A x \in DOMAIN file.preferences \ {id} :
                         file'.preferences[x] = file.preferences[x]
       /\ (\/ pc # "idle"
           \/ pc' # "idle"
           \/ pending' < pending
                /\ resp'.op \in {"generate_combinations", "generate_weekly", "analytics"})
            => file'.shirts = file.shirts /\ file'.pants = file.pants]_vars

\* a combination was rated while ratings of combinations that are not stored
\* were on file, and those ratings are still there
C7_Witness ==
    /\ resp.op = "rate"
    /\ resp.status = 200
    /\ OrphanIds \subseteq DOMAIN file.preferences
    /\ \E k \in 1..Len(file.combinations) : file.combinations[k].id = resp.req.combination_id
\* the entries get_analytics is to return for the items of one category: entry
\* i has the number of opposite items whose combination with item i is rated
\* liked, and stands behind the entries of a lower rate and behind the earlier
\* entries of the same rate
RankedAs(out, items, others, IdOf(_, _)) ==
    LET n == Len(items)
        total == Len(others)
        likes(i) == Cardinality({j \in 1..total :
                                    Liked(file.preferences, IdOf(items[i], others[j]))})
        \* rates have the denominator total in common
        lower(k, i) == total > 0 /\ likes(k) < likes(i)
        same(k, i) == total = 0 \/ likes(k) = likes(i)
        rank(i) == 1 + Cardinality({k \in 1..n : lower(k, i)})
                     + Cardinality({k \in 1..(i - 1) : same(k, i)})
    IN  /\ Len(out) = n
        /\ \A i \in 1..n :
              LET e == out[rank(i)]
              IN  /\ e.item = items[i]
                  /\ e.liked = likes(i)
                  /\ e.total = total
                  /\ IF total = 0 THEN e.performance[1] = 0
                     ELSE e.performance[1] * total = likes(i) * 100 * e.performance[2]

\* C8: get_analytics returns per category one entry per item, with the liked
\* count over the opposite category and the like-rate liked / total x 100 (0
\* when the opposite category is empty), in ascending order of rate, ties in
\* catalog order; empty catalogs give empty lists.
C8_Analytics ==
    resp.op = "analytics" =>
        /\ RankedAs(resp.body.shirt_performance, file.shirts, file.pants,
                    LAMBDA shirt, pants : shirt.id \o <<"_">> \o pants.id)
        /\ RankedAs(resp.body.pants_performance, file.pants, file.shirts,
                    LAMBDA pants, shirt : shirt.id \o <<"_">> \o pants.id)
        /\ (file.shirts = <<>> => resp.body.shirt_performance = <<>>)
        /\ (file.pants = <<>> => resp.body.pants_performance = <<>>)

\* shirts 2 and 3 tie at 0 and come first, in catalog order, before shirt 1
C8_Witness ==
    /\ resp.op = "analytics"
    /\ Len(resp.body.shirt_performance) = 3
    /\ resp.body.shirt_performance[1].item = Shirt(2)
    /\ resp.body.shirt_performance[2].item = Shirt(3)
    /\ resp.body.shirt_performance[3].item = Shirt(1)
    /\ resp.body.shirt_performance[3].liked = 1

BothSaved == \A w \in Workers : reqs[w].at = "done" /\ reqs[w].status = 200
LastSaver == log[Len(log)].worker
FirstSaver == CHOOSE w \in Workers : w # LastSaver
\* both requests loaded before either saved
Overlapped == log[1].event = "load" /\ log[2].event = "load"

\* C9: a request saves the whole document as it loaded it, changed; so when two
\* requests that both report success overlap (both load before either saves),
\* the stored document is the last saver's change to the document both loaded,
\* without the first saver's change; when they do not overlap it has both.
C9_LastSaveWins ==
    BothSaved =>
        file = IF Overlapped
               THEN Changed(reqs[LastSaver].req, file0).doc
               ELSE Changed(reqs[LastSaver].req,
                            Changed(reqs[FirstSaver].req, file0).doc).doc

\* two ratings of different combinations both reported success, and the stored
\* document lacks one of them
C9_Witness ==
    /\ BothSaved
    /\ \A w \in Workers : reqs[w].req.op = "rate"
    /\ reqs[1].req.id # reqs[2].req.id
    /\ \E w \in Workers :
          ~(/\ reqs[w].req.id \in DOMAIN file.preferences
            /\ file.preferences[reqs[w].req.id] = reqs[w].req.liked)

\* C10: a backtrack call that returns False leaves solution and the used-id sets
\* as it found them, so after a failed attempt they are empty; best_solution
\* stays empty; find_weekly_outfits returns 7 combinations or none.
C10_Undone ==
    /\ undone
    /\ (pc = "attempt" /\ attempt > 0)
          => solution = <<>> /\ used_shirts = {} /\ used_pants = {}
    /\ best_solution = <<>>
    /\ pc = "finish" => Len(weekly_outfits) \in {0, 7}

\* every attempt failed and find_weekly_outfits returned the empty list
C10_Witness ==
    /\ pc = "finish"
    /\ attempt = max_attempts
    /\ Len(liked_combos) >= 7
    /\ weekly_outfits = <<>>
    /\ solution = <<>>

====
